---- MODULE Spec2Model ----
(***************************************************************************)
(* Kameeti committee ledger: the useCommitteeData hook (the four entity    *)
(* collections, the member pairing protocol, the derived duration and the  *)
(* bounded undo history) together with the read-only projections the       *)
(* forms compute from it.                                                  *)
(*                                                                         *)
(* Identifiers are uuid strings in the source.  Member ids are modelled as *)
(* naturals whose numeric order stands for the lexicographic order of the  *)
(* strings; committee, payment and draw ids are only ever compared for     *)
(* equality.  The empty string / undefined is NoId.                        *)
(*                                                                         *)
(* Spec drives the hook with arbitrary arguments, SpecUI with the          *)
(* arguments the forms of the application can produce, SpecHist with a     *)
(* long session on one committee that fills the history past its cap.      *)
(***************************************************************************)
EXTENDS Integers, Sequences, FiniteSets, TLC

VARIABLES state, history, past, last

vars == <<state, history, past, last>>

\* ---------------------------------------------------------------- bounds
MaxOps == 4
MaxUiOps == 5
MaxCalls == 22
MaxLateOps == 4
MaxScenarioOps == 6
MaxScenarioMembers == 4
MaxSeqOps == 7
MaxSeqDraws == 3
MaxCommittees == 2
MaxMembers == 3
MaxPayments == 2
MaxDraws == 1

\* ------------------------------------------------------------- constants
MAX_HISTORY_SIZE == 20
DUE_DAY == 10
NoId == 0

FULL == "FULL"
HALF == "HALF"

CommitteeIdPool == 1..MaxCommittees
MemberIdPool == 1..MaxMembers
PaymentIdPool == 1..MaxPayments
DrawIdPool == 1..MaxDraws
ScenarioMemberIdPool == 1..MaxScenarioMembers
SeqDrawIdPool == 1..MaxSeqDraws

Names == {"n"}
Phones == {"p"}
Amounts == {1000}
StartDates == {[year |-> 2024, month |-> 11, day |-> 1]}
PaidDates == {[year |-> 2024, month |-> 11, day |-> 10],
              [year |-> 2024, month |-> 12, day |-> 10]}
PayoutDates == {[year |-> 2024, month |-> 11, day |-> 15]}

\* the start dates of the sessions that record draws month after month
SeqStartDates == {[year |-> 2024, month |-> 11, day |-> 1],
                  [year |-> 2024, month |-> 12, day |-> 1]}

\* the months and paid dates of the sessions that exercise the late-day count
LateMonths == {[year |-> 2024, month |-> 2], [year |-> 2024, month |-> 11],
               [year |-> 2024, month |-> 12]}
LateDates == {[year |-> y, month |-> m, day |-> d] :
                y \in {2024, 2025}, m \in {1, 2, 3, 11, 12}, d \in {9, 10, 11}}

\* --------------------------------------------------------------- helpers
Range(s) == {s[i] : i \in DOMAIN s}

\* Array.prototype.findIndex: the first index whose element has this id, 0 if none
findIndex(seq, id) ==
    IF \E i \in DOMAIN seq : seq[i].id = id
    THEN CHOOSE i \in DOMAIN seq :
            /\ seq[i].id = id
            /\ \A j \in DOMAIN seq : seq[j].id = id => i <= j
    ELSE 0

\* prev.members.find(m => m.pairId === member.pairId && m.id !== member.id):
\* the index of the first other member carrying the same pairId, 0 if none
findPartnerIndex(members, member) ==
    LET hits == {i \in DOMAIN members :
                    /\ members[i].pairId = member.pairId
                    /\ members[i].id # member.id}
    IN  IF hits = {} THEN 0
        ELSE CHOOSE i \in hits : \A j \in hits : i <= j

EmptyState == [committees |-> <<>>, members |-> <<>>, payments |-> <<>>, draws |-> <<>>]

\* ------------------------------------------------------ duration (4.2)
calculateDuration(committeeId, members) ==
    LET committeeMembers == SelectSeq(members, LAMBDA m : m.committeeId = committeeId)
        fullShareCount == Len(SelectSeq(committeeMembers, LAMBDA m : m.shareType = FULL))
        halfShareMembers == SelectSeq(committeeMembers, LAMBDA m : m.shareType = HALF)
        keys == {halfShareMembers[i].pairId : i \in DOMAIN halfShareMembers} \ {NoId}
        pairCount == Cardinality({k \in keys :
                        Cardinality({i \in DOMAIN halfShareMembers :
                                        halfShareMembers[i].pairId = k}) = 2})
    IN  IF Len(halfShareMembers) < 2 THEN fullShareCount
        ELSE fullShareCount + pairCount

\* ----------------------------------------------------- history (4.1)
\* variant: the cap keeps the last MAX_HISTORY_SIZE entries (slice from the end)
updateStateAndHistory_keepsOldest(updatedState) ==
    LET oldState == state
        newHistory == <<oldState>> \o history
    IN  /\ state' = updatedState
        /\ history' = IF Len(newHistory) > MAX_HISTORY_SIZE
                      THEN SubSeq(newHistory, 2, MAX_HISTORY_SIZE + 1)
                      ELSE newHistory
        /\ past' = <<oldState>> \o past

updateStateAndHistory(updatedState) ==
    LET oldState == state
        newHistory == <<oldState>> \o history
    IN  /\ state' = updatedState
        /\ history' = IF Len(newHistory) > MAX_HISTORY_SIZE
                      THEN SubSeq(newHistory, 1, MAX_HISTORY_SIZE)
                      ELSE newHistory
        /\ past' = <<oldState>> \o past

\* variant: undo keeps the snapshot it leaves on the stack (a redo entry)
undo_swaps ==
    /\ IF Len(history) > 0
       THEN /\ state' = Head(history)
            /\ history' = <<state>> \o Tail(history)
            /\ past' = Tail(past)
       ELSE UNCHANGED <<state, history, past>>
    /\ last' = [op |-> "undo", arg |-> NoId]

\* variant: undo takes the entry at the bottom of the stack
undo_fromBottom ==
    /\ IF Len(history) > 0
       THEN /\ state' = history[Len(history)]
            /\ history' = SubSeq(history, 1, Len(history) - 1)
            /\ past' = Tail(past)
       ELSE UNCHANGED <<state, history, past>>
    /\ last' = [op |-> "undo", arg |-> NoId]

undo ==
    /\ IF Len(history) > 0
       THEN /\ state' = Head(history)
            /\ history' = Tail(history)
            /\ past' = Tail(past)
       ELSE UNCHANGED <<state, history, past>>
    /\ last' = [op |-> "undo", arg |-> NoId]

canUndo == Len(history) > 0

\* ------------------------------------------------------------ committees
addCommittee(prev, committee, newId) ==
    LET newCommittee == [id |-> newId, name |-> committee.name,
                         monthlyAmount |-> committee.monthlyAmount,
                         startDate |-> committee.startDate,
                         allowHalfShare |-> committee.allowHalfShare,
                         durationMonths |-> 0]
    IN  [prev EXCEPT !.committees = Append(prev.committees, newCommittee)]

\* variant: the half-share guard is missing
updateCommittee_noGuard(prev, committeeUpdate) ==
    LET idx == findIndex(prev.committees, committeeUpdate.id)
    IN  IF idx = 0 THEN prev
        ELSE [prev EXCEPT !.committees =
                [i \in DOMAIN prev.committees |->
                    IF prev.committees[i].id = committeeUpdate.id
                    THEN [id |-> committeeUpdate.id, name |-> committeeUpdate.name,
                          monthlyAmount |-> committeeUpdate.monthlyAmount,
                          startDate |-> committeeUpdate.startDate,
                          allowHalfShare |-> committeeUpdate.allowHalfShare,
                          durationMonths |-> prev.committees[i].durationMonths]
                    ELSE prev.committees[i]]]

\* variant: the edited committee's durationMonths is reset as in addCommittee
updateCommittee_resetsDuration(prev, committeeUpdate) ==
    LET idx == findIndex(prev.committees, committeeUpdate.id)
        hasHalfShareMembers ==
            \E i \in DOMAIN prev.members :
                /\ prev.members[i].committeeId = committeeUpdate.id
                /\ prev.members[i].shareType = HALF
    IN  IF idx = 0 THEN prev
        ELSE IF ~committeeUpdate.allowHalfShare /\ hasHalfShareMembers THEN prev
        ELSE [prev EXCEPT !.committees =
                [i \in DOMAIN prev.committees |->
                    IF prev.committees[i].id = committeeUpdate.id
                    THEN [id |-> committeeUpdate.id, name |-> committeeUpdate.name,
                          monthlyAmount |-> committeeUpdate.monthlyAmount,
                          startDate |-> committeeUpdate.startDate,
                          allowHalfShare |-> committeeUpdate.allowHalfShare,
                          durationMonths |-> 0]
                    ELSE prev.committees[i]]]

updateCommittee(prev, committeeUpdate) ==
    LET idx == findIndex(prev.committees, committeeUpdate.id)
        hasHalfShareMembers ==
            \E i \in DOMAIN prev.members :
                /\ prev.members[i].committeeId = committeeUpdate.id
                /\ prev.members[i].shareType = HALF
    IN  IF idx = 0 THEN prev
        ELSE IF ~committeeUpdate.allowHalfShare /\ hasHalfShareMembers THEN prev
        ELSE LET existingCommittee == prev.committees[idx]
                 updatedCommittee ==
                    [id |-> committeeUpdate.id, name |-> committeeUpdate.name,
                     monthlyAmount |-> committeeUpdate.monthlyAmount,
                     startDate |-> committeeUpdate.startDate,
                     allowHalfShare |-> committeeUpdate.allowHalfShare,
                     durationMonths |-> existingCommittee.durationMonths]
             IN  [prev EXCEPT !.committees =
                    [i \in DOMAIN prev.committees |->
                        IF prev.committees[i].id = updatedCommittee.id
                        THEN updatedCommittee ELSE prev.committees[i]]]

\* variant: the payments of the committee are left behind
deleteCommittee_keepsPayments(prev, id) ==
    [committees |-> SelectSeq(prev.committees, LAMBDA c : c.id # id),
     members |-> SelectSeq(prev.members, LAMBDA m : m.committeeId # id),
     payments |-> prev.payments,
     draws |-> SelectSeq(prev.draws, LAMBDA d : d.committeeId # id)]

deleteCommittee(prev, id) ==
    [committees |-> SelectSeq(prev.committees, LAMBDA c : c.id # id),
     members |-> SelectSeq(prev.members, LAMBDA m : m.committeeId # id),
     payments |-> SelectSeq(prev.payments, LAMBDA p : p.committeeId # id),
     draws |-> SelectSeq(prev.draws, LAMBDA d : d.committeeId # id)]

\* writes newDuration onto the committee named by committeeId only
withDuration(committees, committeeId, newDuration) ==
    [i \in DOMAIN committees |->
        IF committees[i].id = committeeId
        THEN [committees[i] EXCEPT !.durationMonths = newDuration]
        ELSE committees[i]]

\* --------------------------------------------------------- members (4.3)
addMember(prev, member, newId) ==
    LET partnerId == member.pairId
        partnerIndex == findIndex(prev.members, partnerId)
        linked == member.shareType = HALF /\ partnerId # NoId /\ partnerIndex > 0
        commonPairId == IF newId < partnerId THEN newId ELSE partnerId
        newMember == [id |-> newId, committeeId |-> member.committeeId,
                      name |-> member.name, phone |-> member.phone,
                      shareType |-> member.shareType,
                      pairId |-> IF member.shareType # HALF THEN member.pairId
                                 ELSE IF linked THEN commonPairId ELSE newId]
        relinked == IF linked
                    THEN [prev.members EXCEPT ![partnerIndex].pairId = commonPairId]
                    ELSE prev.members
        updatedMembers == Append(relinked, newMember)
        newDuration == calculateDuration(newMember.committeeId, updatedMembers)
    IN  [prev EXCEPT !.members = updatedMembers,
                     !.committees = withDuration(prev.committees, newMember.committeeId, newDuration)]

\* variant: the pair is keyed by the id of the member being edited
updateMember_keyedByEdited(prev, updatedMember) ==
    LET origIndex == findIndex(prev.members, updatedMember.id)
    IN  IF origIndex = 0 THEN prev
        ELSE
        LET originalMember == prev.members[origIndex]
            newPartnerIdFromModal == updatedMember.pairId
            originalPartnerIndex ==
                IF originalMember.shareType = HALF
                THEN findPartnerIndex(prev.members, originalMember) ELSE 0
            unlinked ==
                IF originalPartnerIndex > 0
                THEN [prev.members EXCEPT ![originalPartnerIndex].pairId =
                                                prev.members[originalPartnerIndex].id]
                ELSE prev.members
            newPartnerIndex == findIndex(unlinked, newPartnerIdFromModal)
            linked == newPartnerIdFromModal # NoId /\ newPartnerIndex > 0
            commonPairId == updatedMember.id
            relinked == IF linked
                        THEN [unlinked EXCEPT ![newPartnerIndex].pairId = commonPairId]
                        ELSE unlinked
            finalMember == [updatedMember EXCEPT
                                !.pairId = IF linked THEN commonPairId ELSE updatedMember.id]
            membersAfterUpdate == [relinked EXCEPT ![origIndex] = finalMember]
            newDuration == calculateDuration(updatedMember.committeeId, membersAfterUpdate)
        IN  [prev EXCEPT !.members = membersAfterUpdate,
                         !.committees = withDuration(prev.committees,
                                                     updatedMember.committeeId, newDuration)]

updateMember(prev, updatedMember) ==
    LET origIndex == findIndex(prev.members, updatedMember.id)
    IN  IF origIndex = 0 THEN prev
        ELSE
        LET originalMember == prev.members[origIndex]
            newPartnerIdFromModal == updatedMember.pairId
            originalPartnerIndex ==
                IF originalMember.shareType = HALF
                THEN findPartnerIndex(prev.members, originalMember) ELSE 0
            unlinked ==
                IF originalPartnerIndex > 0
                THEN [prev.members EXCEPT ![originalPartnerIndex].pairId =
                                                prev.members[originalPartnerIndex].id]
                ELSE prev.members
            newPartnerIndex == findIndex(unlinked, newPartnerIdFromModal)
            linked == newPartnerIdFromModal # NoId /\ newPartnerIndex > 0
            commonPairId == IF updatedMember.id < newPartnerIdFromModal
                            THEN updatedMember.id ELSE newPartnerIdFromModal
            relinked == IF linked
                        THEN [unlinked EXCEPT ![newPartnerIndex].pairId = commonPairId]
                        ELSE unlinked
            finalMember == [updatedMember EXCEPT
                                !.pairId = IF linked THEN commonPairId ELSE updatedMember.id]
            membersAfterUpdate == [relinked EXCEPT ![origIndex] = finalMember]
            newDuration == calculateDuration(updatedMember.committeeId, membersAfterUpdate)
        IN  [prev EXCEPT !.members = membersAfterUpdate,
                         !.committees = withDuration(prev.committees,
                                                     updatedMember.committeeId, newDuration)]

\* the member data as the updater of addMember leaves it: newMember is
\* created outside the updater and its pairId is assigned inside it, so a
\* further evaluation of the updater reads the assigned value as the partner
addMemberArgAfter(prev, member, newId) ==
    LET result == addMember(prev, member, newId)
    IN  [member EXCEPT !.pairId = result.members[Len(result.members)].pairId]

\* the argument of updateMember as the updater leaves it: updatedMember.pairId
\* is assigned on the caller's object once the member is found
updateMemberArgAfter(prev, updatedMember) ==
    LET origIndex == findIndex(prev.members, updatedMember.id)
    IN  IF origIndex = 0 THEN updatedMember
        ELSE updateMember(prev, updatedMember).members[origIndex]

\* the member list deleteMember builds before it decides (lines 284-291)
membersAfterDelete(prev, id) ==
    LET delIndex == findIndex(prev.members, id)
        memberToDelete == prev.members[delIndex]
        partnerIndex == IF memberToDelete.shareType = HALF
                        THEN findPartnerIndex(prev.members, memberToDelete) ELSE 0
        reset == IF partnerIndex > 0
                 THEN [prev.members EXCEPT ![partnerIndex].pairId = prev.members[partnerIndex].id]
                 ELSE prev.members
    IN  SelectSeq(reset, LAMBDA m : m.id # id)

committeeDrawCount(prev, committeeId) ==
    Len(SelectSeq(prev.draws, LAMBDA d : d.committeeId = committeeId))

\* variant: the guard compares the duration before the removal instead of the new one
deleteMember_staleDuration(prev, id) ==
    LET delIndex == findIndex(prev.members, id)
    IN  IF delIndex = 0 THEN prev
        ELSE
        LET memberToDelete == prev.members[delIndex]
            newMembers == membersAfterDelete(prev, id)
            newDuration == calculateDuration(memberToDelete.committeeId, newMembers)
            stored == calculateDuration(memberToDelete.committeeId, prev.members)
        IN  IF stored < committeeDrawCount(prev, memberToDelete.committeeId)
            THEN prev
            ELSE [prev EXCEPT !.members = newMembers,
                              !.committees = withDuration(prev.committees,
                                                memberToDelete.committeeId, newDuration)]

deleteMember(prev, id) ==
    LET delIndex == findIndex(prev.members, id)
    IN  IF delIndex = 0 THEN prev
        ELSE
        LET memberToDelete == prev.members[delIndex]
            newMembers == membersAfterDelete(prev, id)
            newDuration == calculateDuration(memberToDelete.committeeId, newMembers)
        IN  IF newDuration < committeeDrawCount(prev, memberToDelete.committeeId)
            THEN prev
            ELSE [prev EXCEPT !.members = newMembers,
                              !.committees = withDuration(prev.committees,
                                                memberToDelete.committeeId, newDuration)]

\* ------------------------------------------------------- calendar (UTC)
\* days from 1970-01-01 to the civil date, as Date.UTC(year, month - 1, day) / 86400000
daysFromCivil(year, month, day) ==
    LET y == IF month <= 2 THEN year - 1 ELSE year
        era == y \div 400
        yoe == y - era * 400
        mp == IF month > 2 THEN month - 3 ELSE month + 9
        doy == (153 * mp + 2) \div 5 + day - 1
        doe == yoe * 365 + yoe \div 4 - yoe \div 100 + doy
    IN  era * 146097 + doe - 719468

parseDateAsUTC(date) == daysFromCivil(date.year, date.month, date.day)

\* new Date(Date.UTC(y, monthIndex + i, 1)).toISOString().slice(0, 7)
monthAfter(startDate, i) ==
    LET index == startDate.year * 12 + (startDate.month - 1) + i
    IN  [year |-> index \div 12, month |-> (index % 12) + 1]

\* ------------------------------------------------------- payments (4.4)
\* variant: the difference is not clamped at zero
calculateDemerits_noClamp(payment) ==
    LET paidDate == parseDateAsUTC(payment.datePaid)
        dueDate == daysFromCivil(payment.monthYear.year, payment.monthYear.month, DUE_DAY)
        timeDiff == paidDate - dueDate
    IN  [lateDays |-> timeDiff, demeritPoints |-> timeDiff]

\* both instants are UTC midnights, counted here in days: the difference in
\* milliseconds is a whole multiple of a day and Math.ceil leaves it as it is
calculateDemerits(payment) ==
    LET paidDate == parseDateAsUTC(payment.datePaid)
        dueDate == daysFromCivil(payment.monthYear.year, payment.monthYear.month, DUE_DAY)
        timeDiff == paidDate - dueDate
        lateDays == IF timeDiff > 0 THEN timeDiff ELSE 0
    IN  [lateDays |-> lateDays, demeritPoints |-> lateDays]

fullPayment(payment, id) ==
    [id |-> id, committeeId |-> payment.committeeId,
     memberIdOrPairId |-> payment.memberIdOrPairId,
     monthYear |-> payment.monthYear, amount |-> payment.amount,
     datePaid |-> payment.datePaid,
     lateDays |-> calculateDemerits(payment).lateDays,
     demeritPoints |-> calculateDemerits(payment).demeritPoints]

handleAddPayment(prev, payment, newId) ==
    [prev EXCEPT !.payments = Append(prev.payments, fullPayment(payment, newId))]

\* variant: the edit keeps the derived fields the payment had
handleUpdatePayment_keepsDerived(prev, updatedPayment, paymentId) ==
    [prev EXCEPT !.payments =
        [i \in DOMAIN prev.payments |->
            IF prev.payments[i].id = paymentId
            THEN [fullPayment(updatedPayment, paymentId) EXCEPT
                    !.lateDays = prev.payments[i].lateDays,
                    !.demeritPoints = prev.payments[i].demeritPoints]
            ELSE prev.payments[i]]]

handleUpdatePayment(prev, updatedPayment, paymentId) ==
    [prev EXCEPT !.payments =
        [i \in DOMAIN prev.payments |->
            IF prev.payments[i].id = paymentId
            THEN fullPayment(updatedPayment, paymentId) ELSE prev.payments[i]]]

deletePayment(prev, id) ==
    [prev EXCEPT !.payments = SelectSeq(prev.payments, LAMBDA p : p.id # id)]

\* ---------------------------------------------------------- draws (4.5)
handleAddDraw(prev, draw, newId) ==
    [prev EXCEPT !.draws = Append(prev.draws,
        [id |-> newId, committeeId |-> draw.committeeId, monthYear |-> draw.monthYear,
         winnerIdOrPairId |-> draw.winnerIdOrPairId, payoutDate |-> draw.payoutDate,
         amount |-> draw.amount])]

handleUpdateDraw(prev, updatedDraw, drawId) ==
    [prev EXCEPT !.draws =
        [i \in DOMAIN prev.draws |->
            IF prev.draws[i].id = drawId
            THEN [id |-> drawId, committeeId |-> updatedDraw.committeeId,
                  monthYear |-> updatedDraw.monthYear,
                  winnerIdOrPairId |-> updatedDraw.winnerIdOrPairId,
                  payoutDate |-> updatedDraw.payoutDate, amount |-> updatedDraw.amount]
            ELSE prev.draws[i]]]

deleteDraw(prev, id) ==
    [prev EXCEPT !.draws = SelectSeq(prev.draws, LAMBDA d : d.id # id)]

\* ------------------------------------------------- form projections
\* AddMemberModal: the partner candidates offered for a HALF member
unpairedHalfShareMembers(members, committeeId, editingId) ==
    {members[i].id : i \in {j \in DOMAIN members :
        /\ members[j].committeeId = committeeId
        /\ members[j].shareType = HALF
        /\ members[j].pairId = members[j].id
        /\ members[j].id # editingId}}

\* variant: the month number is not carried into the year
currentMonthYear_noCarry(committee, draws) ==
    [year |-> committee.startDate.year,
     month |-> committee.startDate.month
                + Len(SelectSeq(draws, LAMBDA d : d.committeeId = committee.id))]

\* RecordDrawModal.currentMonthYear for a new draw
currentMonthYear(committee, draws) ==
    monthAfter(committee.startDate,
               Len(SelectSeq(draws, LAMBDA d : d.committeeId = committee.id)))

\* the ids of the payer rows (FULL members, pairId groups of HALF members)
memberRowIds(members) ==
    {members[i].id : i \in {j \in DOMAIN members : members[j].shareType = FULL}}
    \cup ({members[i].pairId : i \in {j \in DOMAIN members : members[j].shareType = HALF}}
          \ {NoId})

\* --------------------------------------------------------- identifiers
Snapshots == {state} \cup Range(history) \cup Range(past)

idsOf(seq) == {seq[i].id : i \in DOMAIN seq}

\* uuidv4(): an id that occurs nowhere in the current or any remembered snapshot
freshCommitteeIds ==
    LET used == UNION {idsOf(s.committees) : s \in Snapshots}
        free == CommitteeIdPool \ used
    IN  IF free = {} THEN {} ELSE {CHOOSE i \in free : \A j \in free : i <= j}

freshMemberIds == MemberIdPool \ UNION {idsOf(s.members) : s \in Snapshots}

freshPaymentIds ==
    LET free == PaymentIdPool \ UNION {idsOf(s.payments) : s \in Snapshots}
    IN  IF free = {} THEN {} ELSE {CHOOSE i \in free : \A j \in free : i <= j}

freshDrawIds ==
    LET free == DrawIdPool \ UNION {idsOf(s.draws) : s \in Snapshots}
    IN  IF free = {} THEN {} ELSE {CHOOSE i \in free : \A j \in free : i <= j}

\* a partner id that resolves to no member of the current snapshot
unknownMemberId(exceptId) ==
    LET free == (MemberIdPool \ idsOf(state.members)) \ {exceptId}
    IN  IF free = {} THEN {} ELSE {CHOOSE i \in free : \A j \in free : i <= j}

committeeOf(prev, id) == prev.committees[findIndex(prev.committees, id)]

\* ------------------------------------------------------------- actions
\* state is the current snapshot and history the undo stack of the hook.
\* past and last only observe: past holds the snapshot that was current
\* before each call not yet undone (no cap), last the most recent call.
Init ==
    /\ state = EmptyState
    /\ history = <<>>
    /\ past = <<>>
    /\ last = [op |-> "init", arg |-> NoId]

CallAddCommittee(committee, newId) ==
    /\ updateStateAndHistory(addCommittee(state, committee, newId))
    /\ last' = [op |-> "addCommittee", arg |-> committee]

CallUpdateCommittee(committeeUpdate) ==
    /\ updateStateAndHistory(updateCommittee(state, committeeUpdate))
    /\ last' = [op |-> "updateCommittee", arg |-> committeeUpdate]

CallDeleteCommittee(id) ==
    /\ updateStateAndHistory(deleteCommittee(state, id))
    /\ last' = [op |-> "deleteCommittee", arg |-> id]

CallAddMember(member, newId) ==
    /\ updateStateAndHistory(addMember(state, member, newId))
    /\ last' = [op |-> "addMember", arg |-> member]

CallUpdateMember(updatedMember) ==
    /\ updateStateAndHistory(updateMember(state, updatedMember))
    /\ last' = [op |-> "updateMember", arg |-> updatedMember]

CallDeleteMember(id) ==
    /\ updateStateAndHistory(deleteMember(state, id))
    /\ last' = [op |-> "deleteMember", arg |-> id]

\* addPayment(payment, paymentId?): with an id it edits, without it records
addPayment(payment, paymentId, newId) ==
    /\ updateStateAndHistory(IF paymentId # NoId
                             THEN handleUpdatePayment(state, payment, paymentId)
                             ELSE handleAddPayment(state, payment, newId))
    /\ last' = [op |-> IF paymentId # NoId THEN "updatePayment" ELSE "addPayment",
                arg |-> payment]

CallDeletePayment(id) ==
    /\ updateStateAndHistory(deletePayment(state, id))
    /\ last' = [op |-> "deletePayment", arg |-> id]

\* addDraw(draw, drawId?): with an id it edits, without it records
addDraw(draw, drawId, newId) ==
    /\ updateStateAndHistory(IF drawId # NoId
                             THEN handleUpdateDraw(state, draw, drawId)
                             ELSE handleAddDraw(state, draw, newId))
    /\ last' = [op |-> IF drawId # NoId THEN "updateDraw" ELSE "addDraw",
                arg |-> draw]

CallDeleteDraw(id) ==
    /\ updateStateAndHistory(deleteDraw(state, id))
    /\ last' = [op |-> "deleteDraw", arg |-> id]

\* ---- the engine driven with arbitrary arguments (section 6 of the spec)
DoAddCommittee ==
    \E newId \in freshCommitteeIds, name \in Names, amount \in Amounts,
       startDate \in StartDates, allowHalfShare \in BOOLEAN :
        /\ Len(past) < MaxOps
        /\ CallAddCommittee([name |-> name, monthlyAmount |-> amount,
                             startDate |-> startDate,
                             allowHalfShare |-> allowHalfShare], newId)

DoUpdateCommittee ==
    \E id \in idsOf(state.committees) \cup {NoId}, name \in Names, amount \in Amounts,
       startDate \in StartDates, allowHalfShare \in BOOLEAN :
        /\ Len(past) < MaxOps
        /\ CallUpdateCommittee([id |-> id, name |-> name, monthlyAmount |-> amount,
                                startDate |-> startDate,
                                allowHalfShare |-> allowHalfShare])

DoDeleteCommittee ==
    \E id \in idsOf(state.committees) :
        /\ Len(past) < MaxOps
        /\ CallDeleteCommittee(id)

DoAddMember ==
    \E newId \in freshMemberIds, committeeId \in idsOf(state.committees),
       name \in Names, phone \in Phones, shareType \in {FULL, HALF} :
      \E partnerId \in {NoId} \cup idsOf(state.members) \cup unknownMemberId(newId) :
        /\ Len(past) < MaxOps
        /\ shareType = FULL => partnerId = NoId
        /\ CallAddMember([committeeId |-> committeeId, name |-> name, phone |-> phone,
                          shareType |-> shareType, pairId |-> partnerId], newId)

DoUpdateMember ==
    \E id \in idsOf(state.members) \cup {NoId}, committeeId \in idsOf(state.committees),
       name \in Names, phone \in Phones, shareType \in {FULL, HALF},
       partnerId \in {NoId} \cup idsOf(state.members) \cup unknownMemberId(NoId) :
        /\ Len(past) < MaxOps
        /\ shareType = FULL => partnerId = NoId
        /\ id = NoId => (shareType = FULL /\ \A other \in idsOf(state.committees) : committeeId <= other)
        /\ CallUpdateMember([id |-> id, committeeId |-> committeeId, name |-> name,
                             phone |-> phone, shareType |-> shareType,
                             pairId |-> partnerId])

DoDeleteMember ==
    \E id \in idsOf(state.members) \cup {NoId} :
        /\ Len(past) < MaxOps
        /\ CallDeleteMember(id)

DoAddPayment ==
    \E newId \in freshPaymentIds, committeeId \in idsOf(state.committees),
       payer \in memberRowIds(state.members), datePaid \in PaidDates :
        /\ Len(past) < MaxOps
        /\ addPayment([committeeId |-> committeeId, memberIdOrPairId |-> payer,
                       monthYear |-> monthAfter(committeeOf(state, committeeId).startDate, 0),
                       amount |-> committeeOf(state, committeeId).monthlyAmount,
                       datePaid |-> datePaid], NoId, newId)

DoUpdatePayment ==
    \E i \in DOMAIN state.payments, datePaid \in PaidDates :
        /\ Len(past) < MaxOps
        /\ addPayment([committeeId |-> state.payments[i].committeeId,
                       memberIdOrPairId |-> state.payments[i].memberIdOrPairId,
                       monthYear |-> state.payments[i].monthYear,
                       amount |-> state.payments[i].amount,
                       datePaid |-> datePaid], state.payments[i].id, NoId)

DoDeletePayment ==
    \E id \in idsOf(state.payments) :
        /\ Len(past) < MaxOps
        /\ CallDeletePayment(id)

DoAddDraw ==
    \E newId \in freshDrawIds, committeeId \in idsOf(state.committees),
       winnerId \in memberRowIds(state.members), payoutDate \in PayoutDates :
        /\ Len(past) < MaxOps
        /\ addDraw([committeeId |-> committeeId,
                    monthYear |-> currentMonthYear(committeeOf(state, committeeId), state.draws),
                    winnerIdOrPairId |-> winnerId, payoutDate |-> payoutDate,
                    amount |-> committeeOf(state, committeeId).monthlyAmount
                               * committeeOf(state, committeeId).durationMonths],
                   NoId, newId)

DoUpdateDraw ==
    \E i \in DOMAIN state.draws, payoutDate \in PayoutDates :
        /\ Len(past) < MaxOps
        /\ addDraw([committeeId |-> state.draws[i].committeeId,
                    monthYear |-> state.draws[i].monthYear,
                    winnerIdOrPairId |-> state.draws[i].winnerIdOrPairId,
                    payoutDate |-> payoutDate,
                    amount |-> state.draws[i].amount], state.draws[i].id, NoId)

DoDeleteDraw ==
    \E id \in idsOf(state.draws) :
        /\ Len(past) < MaxOps
        /\ CallDeleteDraw(id)

DoUndo == undo

Next ==
    \/ DoAddCommittee
    \/ DoUpdateCommittee
    \/ DoDeleteCommittee
    \/ DoAddMember
    \/ DoUpdateMember
    \/ DoDeleteMember
    \/ DoAddPayment
    \/ DoUpdatePayment
    \/ DoDeletePayment
    \/ DoAddDraw
    \/ DoUpdateDraw
    \/ DoDeleteDraw
    \/ DoUndo

Spec == Init /\ [][Next]_vars

\* ---- a long session on one committee: enough calls to fill the history
HistAddCommittee ==
    \E newId \in freshCommitteeIds, name \in Names, amount \in Amounts,
       startDate \in StartDates :
        /\ Len(past) < MaxCalls
        /\ state.committees = <<>>
        /\ CallAddCommittee([name |-> name, monthlyAmount |-> amount,
                             startDate |-> startDate, allowHalfShare |-> TRUE], newId)

HistUpdateCommittee ==
    \E i \in DOMAIN state.committees :
        /\ Len(past) < MaxCalls
        /\ CallUpdateCommittee([id |-> state.committees[i].id,
                                name |-> state.committees[i].name,
                                monthlyAmount |-> state.committees[i].monthlyAmount,
                                startDate |-> state.committees[i].startDate,
                                allowHalfShare |-> ~state.committees[i].allowHalfShare])

HistAddMember ==
    \E newId \in freshMemberIds, i \in DOMAIN state.committees,
       name \in Names, phone \in Phones :
        /\ Len(past) < MaxCalls
        /\ \A other \in freshMemberIds : newId <= other
        /\ CallAddMember([committeeId |-> state.committees[i].id, name |-> name,
                          phone |-> phone, shareType |-> HALF, pairId |-> NoId], newId)

HistUndo == undo

NextHist ==
    \/ HistAddCommittee
    \/ HistUpdateCommittee
    \/ HistAddMember
    \/ HistUndo

SpecHist == Init /\ [][NextHist]_vars

\* ---- payments of one member recorded and edited over many months and dates
LateAddCommittee ==
    \E newId \in freshCommitteeIds, name \in Names, amount \in Amounts,
       startDate \in StartDates :
        /\ Len(past) < MaxLateOps
        /\ state.committees = <<>>
        /\ CallAddCommittee([name |-> name, monthlyAmount |-> amount,
                             startDate |-> startDate, allowHalfShare |-> FALSE], newId)

LateAddMember ==
    \E newId \in freshMemberIds, i \in DOMAIN state.committees,
       name \in Names, phone \in Phones :
        /\ Len(past) < MaxLateOps
        /\ state.members = <<>>
        /\ \A other \in freshMemberIds : newId <= other
        /\ CallAddMember([committeeId |-> state.committees[i].id, name |-> name,
                          phone |-> phone, shareType |-> FULL, pairId |-> NoId], newId)

LateAddPayment ==
    \E newId \in freshPaymentIds, m \in DOMAIN state.members,
       monthYear \in LateMonths, datePaid \in LateDates :
        /\ Len(past) < MaxLateOps
        /\ state.payments = <<>>
        /\ addPayment([committeeId |-> state.members[m].committeeId,
                       memberIdOrPairId |-> state.members[m].id,
                       monthYear |-> monthYear,
                       amount |-> committeeOf(state, state.members[m].committeeId).monthlyAmount,
                       datePaid |-> datePaid], NoId, newId)

LateUpdatePayment ==
    \E i \in DOMAIN state.payments, datePaid \in LateDates :
        /\ Len(past) < MaxLateOps
        /\ addPayment([committeeId |-> state.payments[i].committeeId,
                       memberIdOrPairId |-> state.payments[i].memberIdOrPairId,
                       monthYear |-> state.payments[i].monthYear,
                       amount |-> state.payments[i].amount,
                       datePaid |-> datePaid], state.payments[i].id, NoId)

NextLate ==
    \/ LateAddCommittee
    \/ LateAddMember
    \/ LateAddPayment
    \/ LateUpdatePayment

SpecLate == Init /\ [][NextLate]_vars

\* ---- the engine driven through the forms of the application
committeeMembers(members, committeeId) ==
    SelectSeq(members, LAMBDA m : m.committeeId = committeeId)

committeeDraws(draws, committeeId) ==
    SelectSeq(draws, LAMBDA d : d.committeeId = committeeId)

committeePayments(payments, committeeId) ==
    SelectSeq(payments, LAMBDA p : p.committeeId = committeeId)

\* AddMemberModal: the share types the select offers
shareTypeOptions(committee) ==
    IF committee.allowHalfShare THEN {FULL, HALF} ELSE {FULL}

\* AddMemberModal useEffect: the partner preloaded when a member is edited
preloadedPartnerId(editingMember) ==
    IF editingMember.shareType = HALF /\ editingMember.pairId # editingMember.id
    THEN editingMember.pairId ELSE NoId

\* AddMemberModal.handleSubmit: the member data handed to onSave
memberData(committee, shareType, partnerId) ==
    [committeeId |-> committee.id, name |-> CHOOSE n \in Names : TRUE,
     phone |-> CHOOSE n \in Phones : TRUE, shareType |-> shareType,
     pairId |-> IF shareType = HALF THEN partnerId ELSE NoId]

\* paymentsGrid.months / RecordPaymentModal.months
months(committee) ==
    {monthAfter(committee.startDate, i) : i \in 0..(committee.durationMonths - 1)}

\* RecordDrawModal.eligibleWinners, as the set of ids offered
eligibleWinners(committee, members, draws, editingWinnerId) ==
    LET wonIds == {draws[i].winnerIdOrPairId :
                        i \in {j \in DOMAIN draws : draws[j].committeeId = committee.id}}
        fullMembers == {members[i].id : i \in {j \in DOMAIN members :
                            members[j].shareType = FULL /\ members[j].id \notin wonIds}}
        pairs == {members[i].pairId : i \in {j \in DOMAIN members :
                            /\ members[j].shareType = HALF
                            /\ members[j].pairId # NoId
                            /\ members[j].pairId \notin wonIds}}
        resolves == \E i \in DOMAIN members :
                        \/ members[i].id = editingWinnerId
                        \/ members[i].pairId = editingWinnerId
    IN  IF editingWinnerId # NoId /\ resolves
        THEN {editingWinnerId} \cup fullMembers \cup pairs
        ELSE fullMembers \cup pairs

\* paymentsMap: the payment shown in the cell of this payer and month (the
\* last one recorded under that key), 0 when the cell is unpaid
paymentsMap(payments, payer, monthYear) ==
    LET hits == {i \in DOMAIN payments :
                    /\ payments[i].memberIdOrPairId = payer
                    /\ payments[i].monthYear = monthYear}
    IN  IF hits = {} THEN 0 ELSE CHOOSE i \in hits : \A j \in hits : j <= i

UiAddCommittee ==
    \E newId \in freshCommitteeIds, name \in Names, amount \in Amounts,
       startDate \in StartDates, allowHalfShare \in BOOLEAN :
        /\ Len(past) < MaxUiOps
        /\ CallAddCommittee([name |-> name, monthlyAmount |-> amount,
                             startDate |-> startDate,
                             allowHalfShare |-> allowHalfShare], newId)

UiUpdateCommittee ==
    \E i \in DOMAIN state.committees, name \in Names, amount \in Amounts,
       startDate \in StartDates, allowHalfShare \in BOOLEAN :
        /\ Len(past) < MaxUiOps
        /\ CallUpdateCommittee([id |-> state.committees[i].id, name |-> name,
                                monthlyAmount |-> amount, startDate |-> startDate,
                                allowHalfShare |-> allowHalfShare])

UiDeleteCommittee ==
    \E id \in idsOf(state.committees) :
        /\ Len(past) < MaxUiOps
        /\ CallDeleteCommittee(id)

UiAddMember ==
    \E newId \in freshMemberIds, c \in DOMAIN state.committees :
        LET committee == state.committees[c]
            shown == committeeMembers(state.members, committee.id)
        IN  \E shareType \in shareTypeOptions(committee),
               partnerId \in {NoId} \cup unpairedHalfShareMembers(shown, committee.id, NoId) :
                /\ Len(past) < MaxUiOps
                /\ shareType = FULL => partnerId = NoId
                /\ CallAddMember(memberData(committee, shareType, partnerId), newId)

UiUpdateMember ==
    \E m \in DOMAIN state.members, c \in DOMAIN state.committees :
        LET committee == state.committees[c]
            editingMember == state.members[m]
            shown == committeeMembers(state.members, committee.id)
        IN  \E partnerId \in {NoId, preloadedPartnerId(editingMember)}
                    \cup unpairedHalfShareMembers(shown, committee.id, editingMember.id) :
                /\ Len(past) < MaxUiOps
                /\ editingMember.committeeId = committee.id
                /\ editingMember.shareType = FULL => partnerId = NoId
                /\ CallUpdateMember(
                        [id |-> editingMember.id] @@
                        memberData(committee, editingMember.shareType, partnerId))

UiDeleteMember ==
    \E m \in DOMAIN state.members, c \in DOMAIN state.committees :
        /\ Len(past) < MaxUiOps
        /\ state.members[m].committeeId = state.committees[c].id
        /\ CallDeleteMember(state.members[m].id)

\* an unpaid grid cell, or the record-payment button with free selection
UiAddPayment ==
    \E newId \in freshPaymentIds, c \in DOMAIN state.committees :
        LET committee == state.committees[c]
            shown == committeeMembers(state.members, committee.id)
        IN  \E payer \in memberRowIds(shown), monthYear \in months(committee),
               datePaid \in PaidDates :
                /\ Len(past) < MaxUiOps
                /\ addPayment([committeeId |-> committee.id, memberIdOrPairId |-> payer,
                               monthYear |-> monthYear, amount |-> committee.monthlyAmount,
                               datePaid |-> datePaid], NoId, newId)

\* a paid grid cell opens the payment it shows for editing
UiUpdatePayment ==
    \E c \in DOMAIN state.committees :
        LET committee == state.committees[c]
            shown == committeeMembers(state.members, committee.id)
            paid == committeePayments(state.payments, committee.id)
        IN  \E payer \in memberRowIds(shown), monthYear \in months(committee),
               datePaid \in PaidDates :
                /\ Len(past) < MaxUiOps
                /\ paymentsMap(paid, payer, monthYear) # 0
                /\ LET editingPayment == paid[paymentsMap(paid, payer, monthYear)]
                   IN  addPayment([committeeId |-> committee.id,
                                   memberIdOrPairId |-> editingPayment.memberIdOrPairId,
                                   monthYear |-> editingPayment.monthYear,
                                   amount |-> committee.monthlyAmount,
                                   datePaid |-> datePaid], editingPayment.id, NoId)

UiAddDraw ==
    \E newId \in freshDrawIds, c \in DOMAIN state.committees :
        LET committee == state.committees[c]
            shown == committeeMembers(state.members, committee.id)
            drawn == committeeDraws(state.draws, committee.id)
        IN  \E winnerId \in eligibleWinners(committee, shown, drawn, NoId),
               payoutDate \in PayoutDates :
                /\ Len(past) < MaxUiOps
                /\ Len(drawn) < committee.durationMonths
                /\ addDraw([committeeId |-> committee.id,
                            monthYear |-> currentMonthYear(committee, drawn),
                            winnerIdOrPairId |-> winnerId, payoutDate |-> payoutDate,
                            amount |-> committee.monthlyAmount * committee.durationMonths],
                           NoId, newId)

\* the winner select is disabled while a draw is edited: only the payout date changes
UiUpdateDraw ==
    \E d \in DOMAIN state.draws, c \in DOMAIN state.committees :
        LET committee == state.committees[c]
            editingDraw == state.draws[d]
        IN  \E winnerId \in {editingDraw.winnerIdOrPairId}, payoutDate \in PayoutDates :
                /\ Len(past) < MaxUiOps
                /\ editingDraw.committeeId = committee.id
                /\ addDraw([committeeId |-> committee.id,
                            monthYear |-> editingDraw.monthYear,
                            winnerIdOrPairId |-> winnerId, payoutDate |-> payoutDate,
                            amount |-> committee.monthlyAmount * committee.durationMonths],
                           editingDraw.id, NoId)

UiDeleteDraw ==
    \E d \in DOMAIN state.draws, c \in DOMAIN state.committees :
        /\ Len(past) < MaxUiOps
        /\ state.draws[d].committeeId = state.committees[c].id
        /\ CallDeleteDraw(state.draws[d].id)

\* the undo button is shown inside a committee and disabled without history
UiUndo ==
    /\ state.committees # <<>>
    /\ canUndo
    /\ undo

NextUI ==
    \/ UiAddCommittee
    \/ UiUpdateCommittee
    \/ UiDeleteCommittee
    \/ UiAddMember
    \/ UiUpdateMember
    \/ UiDeleteMember
    \/ UiAddPayment
    \/ UiUpdatePayment
    \/ UiAddDraw
    \/ UiUpdateDraw
    \/ UiDeleteDraw
    \/ UiUndo

SpecUI == Init /\ [][NextUI]_vars

\* ---- one committee that takes two FULL and two HALF members, then a pairing
scenarioFreshMemberIds ==
    ScenarioMemberIdPool \ UNION {idsOf(s.members) : s \in Snapshots}

ScenarioAddCommittee ==
    \E newId \in freshCommitteeIds, name \in Names, amount \in Amounts,
       startDate \in StartDates :
        /\ Len(past) < MaxScenarioOps
        /\ state.committees = <<>>
        /\ CallAddCommittee([name |-> name, monthlyAmount |-> amount,
                             startDate |-> startDate, allowHalfShare |-> TRUE], newId)

ScenarioAddMember ==
    \E newId \in scenarioFreshMemberIds, c \in DOMAIN state.committees :
      \E shareType \in shareTypeOptions(state.committees[c]) :
        /\ Len(past) < MaxScenarioOps
        /\ Cardinality({i \in DOMAIN state.members :
                            state.members[i].shareType = shareType}) < 2
        /\ CallAddMember(memberData(state.committees[c], shareType, NoId), newId)

ScenarioPairMember ==
    \E m \in DOMAIN state.members, c \in DOMAIN state.committees :
        LET committee == state.committees[c]
            editingMember == state.members[m]
            shown == committeeMembers(state.members, committee.id)
        IN  \E partnerId \in unpairedHalfShareMembers(shown, committee.id, editingMember.id) :
                /\ Len(past) < MaxScenarioOps
                /\ editingMember.committeeId = committee.id
                /\ editingMember.shareType = HALF
                /\ CallUpdateMember(
                        [id |-> editingMember.id] @@
                        memberData(committee, editingMember.shareType, partnerId))

NextScenario ==
    \/ ScenarioAddCommittee
    \/ ScenarioAddMember
    \/ ScenarioPairMember

SpecScenario == Init /\ [][NextScenario]_vars

\* ---- one committee of FULL members whose draws are recorded, edited and
\* deleted through the draw form, and whose start date is edited
seqFreshDrawIds ==
    LET free == SeqDrawIdPool \ UNION {idsOf(s.draws) : s \in Snapshots}
    IN  IF free = {} THEN {} ELSE {CHOOSE i \in free : \A j \in free : i <= j}

SeqAddCommittee ==
    \E newId \in freshCommitteeIds, name \in Names, amount \in Amounts,
       startDate \in SeqStartDates :
        /\ Len(past) < MaxSeqOps
        /\ state.committees = <<>>
        /\ CallAddCommittee([name |-> name, monthlyAmount |-> amount,
                             startDate |-> startDate, allowHalfShare |-> FALSE], newId)

SeqUpdateCommittee ==
    \E c \in DOMAIN state.committees, startDate \in SeqStartDates :
        /\ Len(past) < MaxSeqOps
        /\ startDate # state.committees[c].startDate
        /\ CallUpdateCommittee([id |-> state.committees[c].id,
                                name |-> state.committees[c].name,
                                monthlyAmount |-> state.committees[c].monthlyAmount,
                                startDate |-> startDate,
                                allowHalfShare |-> state.committees[c].allowHalfShare])

SeqAddMember ==
    \E newId \in scenarioFreshMemberIds, c \in DOMAIN state.committees :
        /\ Len(past) < MaxSeqOps
        /\ \A other \in scenarioFreshMemberIds : newId <= other
        /\ CallAddMember(memberData(state.committees[c], FULL, NoId), newId)

\* the draw form opens with the first eligible winner selected
SeqAddDraw ==
    \E newId \in seqFreshDrawIds, c \in DOMAIN state.committees :
        LET committee == state.committees[c]
            shown == committeeMembers(state.members, committee.id)
            drawn == committeeDraws(state.draws, committee.id)
            offered == eligibleWinners(committee, shown, drawn, NoId)
        IN  \E winnerId \in offered, payoutDate \in PayoutDates :
                /\ Len(past) < MaxSeqOps
                /\ Len(drawn) < committee.durationMonths
                /\ \A other \in offered : winnerId <= other
                /\ addDraw([committeeId |-> committee.id,
                            monthYear |-> currentMonthYear(committee, drawn),
                            winnerIdOrPairId |-> winnerId, payoutDate |-> payoutDate,
                            amount |-> committee.monthlyAmount * committee.durationMonths],
                           NoId, newId)

SeqUpdateDraw ==
    \E d \in DOMAIN state.draws, c \in DOMAIN state.committees,
       payoutDate \in PayoutDates :
        LET committee == state.committees[c]
            editingDraw == state.draws[d]
        IN  /\ Len(past) < MaxSeqOps
            /\ editingDraw.committeeId = committee.id
            /\ addDraw([committeeId |-> committee.id,
                        monthYear |-> editingDraw.monthYear,
                        winnerIdOrPairId |-> editingDraw.winnerIdOrPairId,
                        payoutDate |-> payoutDate,
                        amount |-> committee.monthlyAmount * committee.durationMonths],
                       editingDraw.id, NoId)

SeqDeleteDraw ==
    \E d \in DOMAIN state.draws :
        /\ Len(past) < MaxSeqOps
        /\ CallDeleteDraw(state.draws[d].id)

SeqUndo ==
    /\ canUndo
    /\ undo

NextSeq ==
    \/ SeqAddCommittee
    \/ SeqUpdateCommittee
    \/ SeqAddMember
    \/ SeqAddDraw
    \/ SeqUpdateDraw
    \/ SeqDeleteDraw
    \/ SeqUndo

SpecSeq == Init /\ [][NextSeq]_vars

\* =================================================================
\* Properties
\* =================================================================
\* section 4.2 as written: FULL members plus pairId groups of exactly two HALF members
deriveDuration(committeeId, members) ==
    LET own == {i \in DOMAIN members : members[i].committeeId = committeeId}
        full == {i \in own : members[i].shareType = FULL}
        half == {i \in own : members[i].shareType = HALF}
        groups == {{j \in half : members[j].pairId = members[i].pairId} : i \in half}
    IN  Cardinality(full) + Cardinality({g \in groups : Cardinality(g) = 2})

Min(a, b) == IF a < b THEN a ELSE b

drawCount(snapshot, committeeId) ==
    Cardinality({i \in DOMAIN snapshot.draws : snapshot.draws[i].committeeId = committeeId})

\* the members other than i that carry the pairId of member i
sharers(members, i) ==
    {j \in DOMAIN members : j # i /\ members[j].pairId = members[i].pairId}

\* C1: every committee's stored durationMonths equals the duration derived
\* from the current member set, for every committee of the snapshot.
C1_DurationIsDerived ==
    \A i \in DOMAIN state.committees :
        state.committees[i].durationMonths =
            deriveDuration(state.committees[i].id, state.members)

\* C2: a HALF member whose pairId names another member finds the same pairId
\* on that member, and the shared value is the smaller of the two ids.
C2_PairingSymmetric ==
    \A i, j \in DOMAIN state.members :
        (/\ i # j
         /\ state.members[i].shareType = HALF
         /\ state.members[i].pairId = state.members[j].id)
        => /\ state.members[j].pairId = state.members[i].pairId
           /\ state.members[i].pairId = Min(state.members[i].id, state.members[j].id)

\* C3: no pairId value is carried by more than two HALF members.
C3_AtMostTwoPerPairId ==
    \A i \in DOMAIN state.members :
        state.members[i].shareType = HALF =>
            Cardinality({j \in DOMAIN state.members :
                            /\ state.members[j].shareType = HALF
                            /\ state.members[j].pairId = state.members[i].pairId}) <= 2

\* C4: a HALF member's pairId is its own id exactly when no other member
\* carries that pairId, so every partner candidate offered by the member
\* form is a member without a partner.
C4_SentinelExact ==
    /\ \A i \in DOMAIN state.members :
        state.members[i].shareType = HALF =>
            ((state.members[i].pairId = state.members[i].id)
                <=> (sharers(state.members, i) = {}))
    /\ \A c \in DOMAIN state.committees, i \in DOMAIN state.members :
        state.members[i].id \in
            unpairedHalfShareMembers(state.members, state.committees[c].id, NoId)
        => sharers(state.members, i) = {}

\* the call recorded in last' is one the engine rejects in the state before it
RejectedCall ==
    \/ /\ last'.op = "deleteMember"
       /\ \/ last'.arg \notin idsOf(state.members)
          \/ LET m == state.members[findIndex(state.members, last'.arg)]
             IN  deriveDuration(m.committeeId, membersAfterDelete(state, last'.arg))
                    < drawCount(state, m.committeeId)
    \/ /\ last'.op = "updateCommittee"
       /\ \/ last'.arg.id \notin idsOf(state.committees)
          \/ /\ ~last'.arg.allowHalfShare
             /\ \E i \in DOMAIN state.members :
                    /\ state.members[i].committeeId = last'.arg.id
                    /\ state.members[i].shareType = HALF
    \/ /\ last'.op = "updateMember"
       /\ last'.arg.id \notin idsOf(state.members)

\* C5: a rejected call leaves the history stack exactly as it was.
C5_RejectedPushesNoHistory ==
    [][RejectedCall => history' = history]_vars

\* C6: deleteMember is rejected whenever the duration derived after the
\* removal (the partner reset to unpaired) is below the committee's number
\* of recorded draws, and a rejected call leaves the four collections as
\* they were.
C6_DeleteGuardRejects ==
    [][(/\ last'.op = "deleteMember"
        /\ last'.arg \in idsOf(state.members)
        /\ LET m == state.members[findIndex(state.members, last'.arg)]
           IN  deriveDuration(m.committeeId, membersAfterDelete(state, last'.arg))
                    < drawCount(state, m.committeeId))
       => state' = state]_vars

\* a deleteMember call that named an existing member and was rejected
C6_Witness ==
    /\ last.op = "deleteMember"
    /\ last.arg \in idsOf(state.members)
    /\ past # <<>>
    /\ state = past[1]
    /\ LET m == state.members[findIndex(state.members, last.arg)]
       IN  deriveDuration(m.committeeId, membersAfterDelete(state, last.arg))
                < drawCount(state, m.committeeId)

\* C7: a member mutation never takes a committee whose draws fit its
\* duration to a duration below its number of recorded draws.
C7_NeverShrunkBelowDraws ==
    [][last'.op \in {"addMember", "updateMember", "deleteMember"} =>
        \A i \in DOMAIN state.committees, j \in DOMAIN state'.committees :
            (/\ state.committees[i].id = state'.committees[j].id
             /\ drawCount(state, state.committees[i].id)
                    <= state.committees[i].durationMonths)
            => drawCount(state', state'.committees[j].id)
                    <= state'.committees[j].durationMonths]_vars

\* C8: updateCommittee with allowHalfShare = false changes nothing while the
\* committee has a HALF member; without one it is applied and keeps
\* durationMonths.
C8_HalfShareGuard ==
    [][(last'.op = "updateCommittee" /\ ~last'.arg.allowHalfShare) =>
        LET id == last'.arg.id
            hasHalf == \E i \in DOMAIN state.members :
                            /\ state.members[i].committeeId = id
                            /\ state.members[i].shareType = HALF
        IN  IF hasHalf THEN state' = state
            ELSE /\ state'.members = state.members
                 /\ state'.payments = state.payments
                 /\ state'.draws = state.draws
                 /\ DOMAIN state'.committees = DOMAIN state.committees
                 /\ \A i \in DOMAIN state.committees :
                        IF state.committees[i].id = id
                        THEN state'.committees[i] =
                                [id |-> id, name |-> last'.arg.name,
                                 monthlyAmount |-> last'.arg.monthlyAmount,
                                 startDate |-> last'.arg.startDate,
                                 allowHalfShare |-> FALSE,
                                 durationMonths |-> state.committees[i].durationMonths]
                        ELSE state'.committees[i] = state.committees[i]]_vars

\* an updateCommittee call that tried to disable half shares on a committee
\* with a HALF member
C8_Witness ==
    /\ last.op = "updateCommittee"
    /\ ~last.arg.allowHalfShare
    /\ \E i \in DOMAIN state.members, c \in DOMAIN state.committees :
            /\ state.committees[c].id = last.arg.id
            /\ state.committees[c].allowHalfShare
            /\ state.members[i].committeeId = last.arg.id
            /\ state.members[i].shareType = HALF

\* C9: the history never holds more than 20 snapshots; every call puts the
\* snapshot it started from on top, and when the stack is full the entry at
\* the bottom is the one dropped.
C9_HistoryBoundedLifo ==
    /\ [](Len(history) <= 20)
    /\ [][Len(past') > Len(past) =>
            history' = <<state>> \o (IF Len(history) = 20
                                     THEN SubSeq(history, 1, 19) ELSE history)]_vars

\* a call made on a full history: the stack stays at 20 and an entry was dropped
C9_Witness ==
    /\ Len(history) = 20
    /\ Len(past) > 20
    /\ last.op # "undo"
    /\ history[1] = past[1]

\* C10: undo makes the snapshot that was current before the most recent call
\* not yet undone the current one, so undoing every call made (at most 20)
\* gives back the starting snapshot in all four collections.
C10_UndoIsInverse ==
    /\ [](past = <<>> => state = EmptyState)
    /\ [][(last'.op = "undo" /\ history # <<>>) =>
            /\ state' = past[1]
            /\ Len(history') = Len(history) - 1]_vars

\* an undo that reverted a member, payment or draw call and left earlier calls to undo
C10_Witness ==
    /\ last.op = "undo"
    /\ Len(past) >= 2
    /\ state # past[1]
    /\ state.members # <<>>

\* C11: canUndo holds exactly when the history is non-empty; undo on an empty
\* history leaves snapshot and history as they were; undo on a non-empty
\* history removes its top entry and adds none, so the snapshot it leaves is
\* not put on the stack.
C11_UndoPopsOnly ==
    /\ [](canUndo <=> history # <<>>)
    /\ [][last'.op = "undo" =>
            IF history = <<>>
            THEN state' = state /\ history' = history
            ELSE /\ Len(history') = Len(history) - 1
                 /\ history' = Tail(history)]_vars

\* an undo that left a snapshot which differs from every entry still stacked
C11_Witness ==
    /\ last.op = "undo"
    /\ history # <<>>
    /\ past # <<>>
    /\ state.committees # <<>>
    /\ \A i \in DOMAIN history : history[i] # state

\* C12: no two stored payments have the same committeeId, memberIdOrPairId
\* and monthYear.
C12_OnePaymentPerCell ==
    \A i, j \in DOMAIN state.payments :
        (/\ state.payments[i].committeeId = state.payments[j].committeeId
         /\ state.payments[i].memberIdOrPairId = state.payments[j].memberIdOrPairId
         /\ state.payments[i].monthYear = state.payments[j].monthYear)
        => i = j

\* the snapshot that followed the k-th remembered one
snapshotAfter(k) == IF k = 1 THEN state ELSE past[k - 1]

\* the ids of the members that made up the winner of a recorded draw of this
\* committee when the draw was recorded: the FULL member named by the draw,
\* or the HALF members that carried the winning pairId
wonMembers(committeeId) ==
    {m \in MemberIdPool :
        \E d \in DOMAIN state.draws, k \in DOMAIN past :
            /\ state.draws[d].committeeId = committeeId
            /\ state.draws[d].id \notin idsOf(past[k].draws)
            /\ state.draws[d].id \in idsOf(snapshotAfter(k).draws)
            /\ \E i \in DOMAIN past[k].members :
                    /\ past[k].members[i].id = m
                    /\ past[k].members[i].committeeId = committeeId
                    /\ IF past[k].members[i].shareType = FULL
                       THEN past[k].members[i].id = state.draws[d].winnerIdOrPairId
                       ELSE past[k].members[i].pairId = state.draws[d].winnerIdOrPairId}

\* C13: a member that was the winner of a recorded draw, alone or as one half
\* of the winning pair, is not offered by the eligible-winner set of the same
\* committee, neither alone nor inside a pair.
C13_WinsAtMostOnce ==
    \A c \in DOMAIN state.committees :
        LET committee == state.committees[c]
            shown == committeeMembers(state.members, committee.id)
            drawn == committeeDraws(state.draws, committee.id)
            offered == eligibleWinners(committee, shown, drawn, NoId)
        IN  \A i \in DOMAIN shown :
                shown[i].id \in wonMembers(committee.id) =>
                    IF shown[i].shareType = FULL
                    THEN shown[i].id \notin offered
                    ELSE shown[i].pairId \notin offered

\* the civil calendar, counted month by month from the first of January 2000
isLeapYear(y) == (y % 4 = 0 /\ y % 100 # 0) \/ y % 400 = 0

daysInMonth(y, m) ==
    IF m = 2 THEN (IF isLeapYear(y) THEN 29 ELSE 28)
    ELSE IF m \in {4, 6, 9, 11} THEN 30 ELSE 31

RECURSIVE daysBeforeMonth(_, _)
daysBeforeMonth(y, m) ==
    IF m = 1 THEN 0 ELSE daysBeforeMonth(y, m - 1) + daysInMonth(y, m - 1)

dayNumber(y, m, d) ==
    365 * (y - 2000) + Cardinality({yy \in 2000..(y - 1) : isLeapYear(yy)})
        + daysBeforeMonth(y, m) + d

\* whole days from day 10 of the month to the paid date (negative when early)
daysAfterDue(monthYear, datePaid) ==
    dayNumber(datePaid.year, datePaid.month, datePaid.day)
        - dayNumber(monthYear.year, monthYear.month, 10)

\* C14: every payment's lateDays is the number of whole days from day 10 of
\* its monthYear to its datePaid, and 0 when that is not positive: 0 up to
\* day 10, 1 on day 11, 30 when paid exactly 30 days after the due date.
C14_LateDays ==
    \A i \in DOMAIN state.payments :
        LET p == state.payments[i]
            late == daysAfterDue(p.monthYear, p.datePaid)
            sameMonth == p.datePaid.year = p.monthYear.year
                            /\ p.datePaid.month = p.monthYear.month
        IN  /\ p.lateDays >= 0
            /\ p.lateDays = (IF late > 0 THEN late ELSE 0)
            /\ (sameMonth /\ p.datePaid.day <= 10) => p.lateDays = 0
            /\ (sameMonth /\ p.datePaid.day = 11) => p.lateDays = 1
            /\ late = 30 => p.lateDays = 30

\* a payment for December paid in January of the next year, exactly 30 days late
C14_Witness ==
    \E i \in DOMAIN state.payments :
        /\ state.payments[i].monthYear = [year |-> 2024, month |-> 12]
        /\ state.payments[i].datePaid = [year |-> 2025, month |-> 1, day |-> 9]
        /\ state.payments[i].lateDays = 30

\* C15: every stored payment has demeritPoints = lateDays, and lateDays is the
\* late-day count of its own datePaid and monthYear; editing a payment keeps
\* the number of payments and the id at every position.
C15_DerivedFieldsCurrent ==
    /\ [](\A i \in DOMAIN state.payments :
            LET p == state.payments[i]
                late == daysAfterDue(p.monthYear, p.datePaid)
            IN  /\ p.demeritPoints = p.lateDays
                /\ p.lateDays = (IF late > 0 THEN late ELSE 0))
    /\ [][last'.op = "updatePayment" =>
            /\ Len(state'.payments) = Len(state.payments)
            /\ \A i \in DOMAIN state.payments :
                    state'.payments[i].id = state.payments[i].id]_vars

\* an edit that moved a payment's datePaid and with it its lateDays
C15_Witness ==
    /\ last.op = "updatePayment"
    /\ past # <<>>
    /\ Len(past[1].payments) = Len(state.payments)
    /\ \E i \in DOMAIN state.payments :
            /\ state.payments[i].datePaid # past[1].payments[i].datePaid
            /\ state.payments[i].lateDays # past[1].payments[i].lateDays

\* seq without the entries at the positions in gone, in the same order
without(seq, gone) ==
    LET kept == DOMAIN seq \ gone
        nth(k) == CHOOSE i \in kept : Cardinality({j \in kept : j < i}) = k - 1
    IN  [k \in 1..Cardinality(kept) |-> seq[nth(k)]]

\* C16: deleteCommittee(id) leaves no committee with that id and no member,
\* payment or draw with that committeeId, and leaves every other entity in
\* place and unchanged; the undo that follows it brings back the snapshot the
\* deletion started from, the committee and all it owned included.
C16_DeleteCommitteeCascades ==
    /\ [][last'.op = "deleteCommittee" =>
            LET id == last'.arg
            IN  /\ \A i \in DOMAIN state'.committees : state'.committees[i].id # id
                /\ \A i \in DOMAIN state'.members : state'.members[i].committeeId # id
                /\ \A i \in DOMAIN state'.payments : state'.payments[i].committeeId # id
                /\ \A i \in DOMAIN state'.draws : state'.draws[i].committeeId # id
                /\ state'.committees = without(state.committees,
                        {i \in DOMAIN state.committees : state.committees[i].id = id})
                /\ state'.members = without(state.members,
                        {i \in DOMAIN state.members : state.members[i].committeeId = id})
                /\ state'.payments = without(state.payments,
                        {i \in DOMAIN state.payments : state.payments[i].committeeId = id})
                /\ state'.draws = without(state.draws,
                        {i \in DOMAIN state.draws : state.draws[i].committeeId = id})]_vars
    /\ [][(last.op = "deleteCommittee" /\ last'.op = "undo" /\ history # <<>>) =>
            /\ state' = past[1]
            /\ last.arg \in idsOf(past[1].committees) => last.arg \in idsOf(state'.committees)]_vars

\* a deletion that took a member and a payment with the committee
C16_Witness ==
    /\ last.op = "deleteCommittee"
    /\ past # <<>>
    /\ last.arg \in idsOf(past[1].committees)
    /\ last.arg \notin idsOf(state.committees)
    /\ \E i \in DOMAIN past[1].members : past[1].members[i].committeeId = last.arg
    /\ \E i \in DOMAIN past[1].payments : past[1].payments[i].committeeId = last.arg
    /\ state.members = <<>>
    /\ state.payments = <<>>

\* C17: evaluating the updater of addMember or updateMember once more on the
\* snapshot the call started from gives the snapshot the call produced, and
\* updateMember leaves the member object it was given as it was.
C17_UpdatersArePure ==
    [][/\ (last'.op = "addMember" =>
            LET member == last'.arg
                newId == state'.members[Len(state'.members)].id
            IN  addMember(state, addMemberArgAfter(state, member, newId), newId) = state')
        /\ (last'.op = "updateMember" =>
            LET updatedMember == last'.arg
            IN  /\ updateMember(state, updateMemberArgAfter(state, updatedMember)) = state'
                /\ updateMemberArgAfter(state, updatedMember) = updatedMember)]_vars

\* C18: a draw is stored with amount = monthlyAmount * durationMonths of its
\* committee as they are when it is recorded, and no later call (undo aside)
\* changes the amount of a stored draw.
C18_DrawAmountFixed ==
    /\ [][last'.op = "addDraw" =>
            LET d == state'.draws[Len(state'.draws)]
                c == committeeOf(state, d.committeeId)
            IN  d.amount = c.monthlyAmount * c.durationMonths]_vars
    /\ [][last'.op # "undo" =>
            \A i \in DOMAIN state.draws, j \in DOMAIN state'.draws :
                state.draws[i].id = state'.draws[j].id
                    => state'.draws[j].amount = state.draws[i].amount]_vars

\* the committee has exactly two FULL and two HALF members in this snapshot
\* and every HALF member carries its own id as pairId
twoFullTwoUnpaired(snapshot) ==
    /\ Cardinality({i \in DOMAIN snapshot.members :
                        snapshot.members[i].shareType = FULL}) = 2
    /\ Cardinality({i \in DOMAIN snapshot.members :
                        snapshot.members[i].shareType = HALF}) = 2
    /\ \A i \in DOMAIN snapshot.members :
            snapshot.members[i].shareType = HALF
                => snapshot.members[i].pairId = snapshot.members[i].id

\* C19: a new committee has durationMonths 0; with two FULL and two unpaired
\* HALF members it has durationMonths 2; after one HALF member is edited to
\* pair with the other it has durationMonths 3 and both HALF members carry
\* the smaller of their two ids as pairId.
C19_Scenario ==
    /\ (last.op = "addCommittee" =>
            (\A c \in DOMAIN state.committees : state.committees[c].durationMonths = 0))
    /\ (twoFullTwoUnpaired(state) =>
            (\A c \in DOMAIN state.committees : state.committees[c].durationMonths = 2))
    /\ ((last.op = "updateMember" /\ past # <<>> /\ twoFullTwoUnpaired(past[1])) =>
            ((\A c \in DOMAIN state.committees : state.committees[c].durationMonths = 3)
             /\ (\A i, j \in DOMAIN state.members :
                    (/\ i # j
                     /\ state.members[i].shareType = HALF
                     /\ state.members[j].shareType = HALF)
                    => (/\ state.members[i].pairId = state.members[j].pairId
                        /\ state.members[i].pairId
                                = Min(state.members[i].id, state.members[j].id)))))

\* the pairing made by editing the HALF member with the larger id
C19_Witness ==
    /\ last.op = "updateMember"
    /\ past # <<>>
    /\ twoFullTwoUnpaired(past[1])
    /\ last.arg.pairId # NoId
    /\ last.arg.pairId < last.arg.id
    /\ \E c \in DOMAIN state.committees : state.committees[c].durationMonths = 3

\* C20: when updateMember edits a HALF member whose pairId was carried by
\* another member, that old partner ends with its own id as pairId, carried by
\* no other member, unless it is named as the new partner, and then the pair
\* is as it was.
C20_OldPartnerRestored ==
    [][(last'.op = "updateMember" /\ last'.arg.id \in idsOf(state.members)) =>
        LET m == findIndex(state.members, last'.arg.id)
        IN  state.members[m].shareType = HALF =>
                \A o \in sharers(state.members, m) :
                    IF last'.arg.pairId = state.members[o].id
                    THEN /\ state'.members[o].pairId = state.members[o].pairId
                         /\ state'.members[m].pairId = state.members[m].pairId
                    ELSE /\ state'.members[o].pairId = state.members[o].id
                         /\ sharers(state'.members, o) = {}]_vars

\* C21: a deleteMember that is applied removes exactly the named member, sets
\* the pairId of every member that carried the pairId of a deleted HALF member
\* to that member's own id, leaves every other member as it was and in
\* place, and leaves payments and draws as they were.
C21_DeleteMemberFrame ==
    [][(last'.op = "deleteMember" /\ last'.arg \in idsOf(state.members) /\ state' # state) =>
        LET d == findIndex(state.members, last'.arg)
            partners == IF state.members[d].shareType = HALF
                        THEN sharers(state.members, d) ELSE {}
        IN  /\ state'.payments = state.payments
            /\ state'.draws = state.draws
            /\ Len(state'.members) = Len(state.members) - 1
            /\ \A i \in DOMAIN state.members \ {d} :
                    state'.members[IF i < d THEN i ELSE i - 1] =
                        (IF i \in partners
                         THEN [state.members[i] EXCEPT !.pairId = state.members[i].id]
                         ELSE state.members[i])]_vars

\* C22: addMember of a HALF member without a partner, or with a partner id
\* that names no member, stores it with its own id as pairId and modifies no
\* existing member; with a partner that exists and shares its pairId with
\* nobody, the new member and the partner get the smaller of their ids and
\* no third member is modified; a partner that already shares its pairId
\* with a member is not linked to the new member.
C22_AddMemberPairing ==
    [][(last'.op = "addMember" /\ last'.arg.shareType = HALF) =>
        LET n == Len(state.members)
            new == state'.members[n + 1]
            p == findIndex(state.members, last'.arg.pairId)
        IN  /\ Len(state'.members) = n + 1
            /\ IF last'.arg.pairId = NoId \/ p = 0
               THEN /\ new.pairId = new.id
                    /\ SubSeq(state'.members, 1, n) = state.members
               ELSE IF sharers(state.members, p) = {}
               THEN /\ new.pairId = Min(new.id, state.members[p].id)
                    /\ SubSeq(state'.members, 1, n) =
                            [state.members EXCEPT ![p].pairId = new.pairId]
               ELSE /\ new.pairId # state'.members[p].pairId
                    /\ SubSeq(state'.members, 1, n) = state.members]_vars

\* the month that follows a month, and the n-th month after one
nextMonth(monthYear) ==
    IF monthYear.month = 12 THEN [year |-> monthYear.year + 1, month |-> 1]
    ELSE [year |-> monthYear.year, month |-> monthYear.month + 1]

RECURSIVE monthsLater(_, _)
monthsLater(monthYear, n) ==
    IF n = 0 THEN monthYear ELSE monthsLater(nextMonth(monthYear), n - 1)

\* C23: a newly recorded draw carries the month that lies as many months
\* after the committee's start month as the committee had draws before, the
\* year advancing after December; an edited draw keeps its monthYear.
C23_DrawMonthPositional ==
    /\ [][last'.op = "addDraw" =>
            LET d == state'.draws[Len(state'.draws)]
                c == committeeOf(state, d.committeeId)
            IN  d.monthYear =
                    monthsLater([year |-> c.startDate.year, month |-> c.startDate.month],
                                drawCount(state, d.committeeId))]_vars
    /\ [][last'.op = "updateDraw" =>
            /\ Len(state'.draws) = Len(state.draws)
            /\ \A i \in DOMAIN state.draws :
                    state'.draws[i].monthYear = state.draws[i].monthYear]_vars

\* a draw recorded for January 2025 in a committee that started in 2024
C23_Witness ==
    /\ last.op = "addDraw"
    /\ \E i \in DOMAIN state.draws, c \in DOMAIN state.committees :
            /\ state.draws[i].committeeId = state.committees[c].id
            /\ state.committees[c].startDate.year = 2024
            /\ state.draws[i].monthYear = [year |-> 2025, month |-> 1]

\* C25: no two draws of one committee carry the same monthYear.
C25_DrawMonthsDistinct ==
    \A i, j \in DOMAIN state.draws :
        (/\ state.draws[i].committeeId = state.draws[j].committeeId
         /\ state.draws[i].monthYear = state.draws[j].monthYear)
        => i = j

\* the payer keys of section 4.6: the ids of the FULL members and the pairIds
\* carried by exactly two HALF members
payerKeys(members) ==
    {members[i].id : i \in {j \in DOMAIN members : members[j].shareType = FULL}}
    \cup {members[i].pairId : i \in {j \in DOMAIN members :
                /\ members[j].shareType = HALF
                /\ Cardinality({k \in DOMAIN members :
                        /\ members[k].shareType = HALF
                        /\ members[k].pairId = members[j].pairId}) = 2}}

\* C24: the payer rows of a committee are one per FULL member and one per
\* pairId carried by exactly two HALF members, so there are durationMonths of
\* them, and the eligible-winner list offers no other row.
C24_PayerRows ==
    \A c \in DOMAIN state.committees :
        LET committee == state.committees[c]
            shown == committeeMembers(state.members, committee.id)
            drawn == committeeDraws(state.draws, committee.id)
        IN  /\ memberRowIds(shown) = payerKeys(shown)
            /\ Cardinality(memberRowIds(shown)) = committee.durationMonths
            /\ eligibleWinners(committee, shown, drawn, NoId) \subseteq payerKeys(shown)

\* key is the id of a FULL member or the pairId of a HALF member of the committee
payerExists(snapshot, committeeId, key) ==
    \E i \in DOMAIN snapshot.members :
        /\ snapshot.members[i].committeeId = committeeId
        /\ IF snapshot.members[i].shareType = FULL
           THEN snapshot.members[i].id = key
           ELSE snapshot.members[i].pairId = key

\* C26: every payment's memberIdOrPairId and every draw's winnerIdOrPairId
\* names a FULL member or the pairId of a HALF member present in the same
\* committee.
C26_PayerKeysResolve ==
    /\ \A i \in DOMAIN state.payments :
            payerExists(state, state.payments[i].committeeId,
                        state.payments[i].memberIdOrPairId)
    /\ \A i \in DOMAIN state.draws :
            payerExists(state, state.draws[i].committeeId,
                        state.draws[i].winnerIdOrPairId)

\* C27: two distinct members that carry the same pairId are both HALF members
\* of the same committee.
C27_PairsWithinCommittee ==
    \A i, j \in DOMAIN state.members :
        (/\ i # j
         /\ state.members[i].pairId # NoId
         /\ state.members[i].pairId = state.members[j].pairId)
        => /\ state.members[i].shareType = HALF
           /\ state.members[j].shareType = HALF
           /\ state.members[i].committeeId = state.members[j].committeeId

\* C28: submitting the edit form of a paired HALF member exactly as it was
\* preloaded (same name, phone, share type, and the partner the form derived from
\* the stored pairId) leaves every member's pairId and every committee's
\* durationMonths as they were.
C28_UnchangedEditIsNoOp ==
    [][(/\ last'.op = "updateMember"
        /\ last'.arg.id \in idsOf(state.members)) =>
            LET e == findIndex(state.members, last'.arg.id)
                editingMember == state.members[e]
            IN  (/\ editingMember.shareType = HALF
                 /\ sharers(state.members, e) # {}
                 /\ last'.arg.name = editingMember.name
                 /\ last'.arg.phone = editingMember.phone
                 /\ last'.arg.shareType = editingMember.shareType
                 /\ last'.arg.committeeId = editingMember.committeeId
                 /\ last'.arg.pairId = preloadedPartnerId(editingMember))
                => /\ Len(state'.members) = Len(state.members)
                   /\ \A i \in DOMAIN state.members :
                        state'.members[i].pairId = state.members[i].pairId
                   /\ \A c \in DOMAIN state.committees :
                        state'.committees[c].durationMonths =
                            state.committees[c].durationMonths]_vars

\* C29: a committee whose allowHalfShare is false has no HALF members.
C29_NoHalfWhereDisallowed ==
    \A c \in DOMAIN state.committees : \A m \in DOMAIN state.members :
        (/\ ~state.committees[c].allowHalfShare
         /\ state.members[m].committeeId = state.committees[c].id)
        => state.members[m].shareType # HALF

\* the durationMonths of the committees, in order
durations(s) ==
    [i \in DOMAIN s.committees |-> s.committees[i].durationMonths]

\* C30: the payment operations leave committees, members and draws unchanged,
\* the draw operations leave committees, members and payments unchanged, and
\* addCommittee and updateCommittee leave members, payments and draws unchanged
\* and change the durationMonths of no committee that existed before the call.
C30_OwnCollectionOnly ==
    [][/\ (last'.op \in {"addPayment", "updatePayment", "deletePayment"} =>
            /\ state'.committees = state.committees
            /\ state'.members = state.members
            /\ state'.draws = state.draws)
       /\ (last'.op \in {"addDraw", "updateDraw", "deleteDraw"} =>
            /\ state'.committees = state.committees
            /\ state'.members = state.members
            /\ state'.payments = state.payments)
       /\ (last'.op \in {"addCommittee", "updateCommittee"} =>
            /\ state'.members = state.members
            /\ state'.payments = state.payments
            /\ state'.draws = state.draws
            /\ SubSeq(durations(state'), 1, Len(state.committees)) = durations(state))]_vars

\* a committee with a counted member and a recorded payment has just been edited
C30_Witness ==
    /\ last.op = "updateCommittee"
    /\ state # past[1]
    /\ state.payments # <<>>
    /\ \E i \in DOMAIN state.committees :
            /\ state.committees[i].id = last.arg.id
            /\ state.committees[i].durationMonths > 0

====
